---------------------------- MODULE Spec2Model ----------------------------
(***************************************************************************)
(* Model of the delta-form PID controller with two-tap anti-windup, its    *)
(* quantising encoder, the coefficient derivation of the driver and the    *)
(* two comparison harnesses.                                               *)
(*                                                                         *)
(* A C++ `float` is modelled bit-accurately as an IEEE-754 binary32 value  *)
(* [m |-> mantissa, e |-> exponent] of value m * 2^e, with |m| < 2^24,     *)
(* e >= EMin, and 2^23 <= |m| unless e = EMin (subnormal) -- every float   *)
(* operation rounds to nearest, ties to even, as the hardware does.  The   *)
(* two zeros are one value (no operation of the program tells them apart). *)
(* Infinities are F32Inf and NaN is F32NaN; they arise only as results.    *)
(*                                                                         *)
(* A C `double` of the driver is an IEEE-754 binary64 value with its       *)
(* magnitude held as a sequence of 15-bit limbs, signed zeros, infinities  *)
(* and NaN included, rounded to nearest-even after every operation.        *)
(*                                                                         *)
(* Floating-point expressions are evaluated one operation at a time, each  *)
(* rounded (no contraction into fused multiply-adds), which is what the    *)
(* sources' mul_rn/add_rn helpers enforce; the one explicit fmaf of the    *)
(* encoder is modelled as a fused operation.                               *)
(***************************************************************************)
EXTENDS Integers, Sequences, FiniteSets, TLC

(***************************************************************************)
(* IEEE-754 binary32 arithmetic                                            *)
(***************************************************************************)
EMin == -149
EMax == 104
MantBits == 24

Abs(n) == IF n < 0 THEN -n ELSE n
Max(a, b) == IF a >= b THEN a ELSE b
Min(a, b) == IF a <= b THEN a ELSE b

RECURSIVE BitLen(_)
BitLen(n) == IF n = 0 THEN 0 ELSE 1 + BitLen(n \div 2)

F32(m, e) == [m |-> m, e |-> e]
F32Zero == F32(0, EMin)
\* the result of an overflow: not a float of the model's finite range
F32Inf(neg) == F32(IF neg THEN -(2^MantBits) ELSE 2^MantBits, EMax)
IsFinite(a) == Abs(a.m) < 2^MantBits

\* v shifted right by d bits, the bits lost OR-ed into the last bit kept
ShiftRightJam(v, d) ==
    IF d <= 0 THEN v
    ELSE IF d >= 30 THEN (IF v > 0 THEN 1 ELSE 0)
    ELSE LET q == v \div 2^d
             r == v % 2^d
         IN IF r # 0 /\ q % 2 = 0 THEN q + 1 ELSE q

\* (-1)^neg * M * 2^e rounded to nearest-even binary32; 0 <= M < 2^30, and
\* when M's last bit stands for lost bits at least two bits are dropped
RoundJam(neg, M, e) ==
    LET L == BitLen(M)
        s == Max(L - MantBits, EMin - e)
        sgn(x) == IF neg THEN -x ELSE x
    IN IF M = 0 THEN F32Zero
       ELSE IF s <= 0 THEN
            LET t == Min(MantBits - L, e - EMin)
            IN IF e - t > EMax THEN F32Inf(neg) ELSE F32(sgn(M * 2^t), e - t)
       ELSE IF s > 30 THEN F32Zero
       ELSE LET q == M \div 2^s
                r == M % 2^s
                half == 2^(s - 1)
                up == r > half \/ (r = half /\ q % 2 = 1)
                q1 == IF up THEN q + 1 ELSE q
                m2 == IF q1 = 2^MantBits THEN 2^(MantBits - 1) ELSE q1
                e2 == IF q1 = 2^MantBits THEN e + s + 1 ELSE e + s
            IN IF m2 = 0 THEN F32Zero
               ELSE IF e2 > EMax THEN F32Inf(neg)
               ELSE F32(sgn(m2), e2)

\* f32_from_hex: the float whose bit pattern is hi16 * 2^16 + lo16
f32_from_hex(hi16, lo16) ==
    LET neg == hi16 \div 32768 = 1
        ex == (hi16 % 32768) \div 128
        frac == (hi16 % 128) * 65536 + lo16
        m == IF ex = 0 THEN frac ELSE 2^(MantBits - 1) + frac
        e == IF ex = 0 THEN EMin ELSE ex - 150
    IN IF m = 0 THEN F32Zero ELSE F32(IF neg THEN -m ELSE m, e)

F32Neg(a) == F32(-a.m, a.e)
F32Fabs(a) == F32(Abs(a.m), a.e)

\* a + b
F32Add(a, b) ==
    IF a.m = 0 THEN b
    ELSE IF b.m = 0 THEN a
    ELSE LET x == IF a.e >= b.e THEN a ELSE b
             y == IF a.e >= b.e THEN b ELSE a
             B == ShiftRightJam(Abs(y.m) * 8, x.e - y.e)
             S == x.m * 8 + (IF y.m < 0 THEN -B ELSE B)
         IN RoundJam(S < 0, Abs(S), x.e - 3)

F32Sub(a, b) == F32Add(a, F32Neg(b))

\* the 48-bit product of two 24-bit mantissas as <<high 24 bits, low 24 bits>>
Mul24(ma, mb) ==
    LET ah == ma \div 4096
        al == ma % 4096
        bh == mb \div 4096
        bl == mb % 4096
        mid == ah * bl + al * bh
        lo_raw == (mid % 4096) * 4096 + al * bl
    IN <<ah * bh + mid \div 4096 + lo_raw \div 2^24, lo_raw % 2^24>>

\* a two-limb value hi * 2^24 + lo as <<M, k>>: M * 2^k with M < 2^30,
\* the bits lost OR-ed into M's last bit
Reduce2(hi, lo) ==
    IF hi = 0 THEN <<lo, 0>>
    ELSE IF hi < 64 THEN <<hi * 2^24 + lo, 0>>
    ELSE LET k == BitLen(hi) - 4
             q == hi * 2^(24 - k) + lo \div 2^k
             r == lo % 2^k
         IN <<IF r # 0 /\ q % 2 = 0 THEN q + 1 ELSE q, k>>

\* a * b
F32Mul(a, b) ==
    IF a.m = 0 \/ b.m = 0 THEN F32Zero
    ELSE LET P == Mul24(Abs(a.m), Abs(b.m))
             R == Reduce2(P[1], P[2])
         IN RoundJam((a.m < 0) # (b.m < 0), R[1], a.e + b.e + R[2])

\* n further quotient bits of R / D appended to Q: <<quotient, remainder>>
RECURSIVE DivLoop(_, _, _, _)
DivLoop(Q, R, D, n) ==
    IF n = 0 THEN <<Q, R>>
    ELSE IF 2 * R >= D THEN DivLoop(2 * Q + 1, 2 * R - D, D, n - 1)
    ELSE DivLoop(2 * Q, 2 * R, D, n - 1)

\* a / b
F32Div(a, b) ==
    IF b.m = 0 THEN F32Inf(a.m < 0)
    ELSE IF a.m = 0 THEN F32Zero
    ELSE LET sa == MantBits - BitLen(Abs(a.m))
             sb == MantBits - BitLen(Abs(b.m))
             na == Abs(a.m) * 2^sa
             nb == Abs(b.m) * 2^sb
             q0 == IF na >= nb THEN 1 ELSE 0
             QR == DivLoop(q0, na - q0 * nb, nb, 27)
             M == IF QR[2] # 0 /\ QR[1] % 2 = 0 THEN QR[1] + 1 ELSE QR[1]
         IN RoundJam((a.m < 0) # (b.m < 0), M, (a.e - sa) - (b.e - sb) - 27)

\* the two-limb value hi * 2^24 + lo shifted right by k >= 0 bits, the bits
\* lost OR-ed into the last bit kept (the result is below 2^30)
ShiftRightJam2(hi, lo, k) ==
    LET q == IF k >= 48 THEN 0
             ELSE IF k >= 24 THEN hi \div 2^(k - 24)
             ELSE hi * 2^(24 - k) + lo \div 2^k
        lost == IF k >= 48 THEN hi # 0 \/ lo # 0
                ELSE IF k >= 24 THEN hi % 2^(k - 24) # 0 \/ lo # 0
                ELSE lo % 2^k # 0
    IN IF lost /\ q % 2 = 0 THEN q + 1 ELSE q

\* two-limb sum, and difference of a larger and a smaller two-limb value
Add2(h1, l1, h2, l2) == <<h1 + h2 + (l1 + l2) \div 2^24, (l1 + l2) % 2^24>>
Sub2(h1, l1, h2, l2) ==
    IF l1 >= l2 THEN <<h1 - h2, l1 - l2>> ELSE <<h1 - h2 - 1, l1 + 2^24 - l2>>

\* std::fmaf(a, b, c): a * b + c with a single rounding
F32Fma(a, b, c) ==
    IF a.m = 0 \/ b.m = 0 THEN c
    ELSE IF c.m = 0 THEN F32Mul(a, b)
    ELSE LET sa == MantBits - BitLen(Abs(a.m))
             sb == MantBits - BitLen(Abs(b.m))
             sc == MantBits - BitLen(Abs(c.m))
             P == Mul24(Abs(a.m) * 2^sa, Abs(b.m) * 2^sb)
             ep == (a.e - sa) + (b.e - sb)
             nc == Abs(c.m) * 2^sc
             ec == c.e - sc
             d == ec - ep
             pneg == (a.m < 0) # (b.m < 0)
             cneg == c.m < 0
         IN IF d >= 26 THEN
                \* c dominates: the product only reaches the guard bits
                LET B == ShiftRightJam2(P[1], P[2], d - 3)
                    M == IF pneg = cneg THEN nc * 8 + B ELSE nc * 8 - B
                IN RoundJam(cneg, M, ec - 3)
            ELSE IF d < 0 THEN
                \* the product dominates: c's bits below the product's last
                \* bit only tell which way an inexact result leans
                LET ti == IF -d >= 24 THEN 0 ELSE nc \div 2^(-d)
                    tf == IF -d >= 24 THEN TRUE ELSE nc % 2^(-d) # 0
                    S == IF pneg = cneg THEN Add2(P[1], P[2], 0, ti)
                         ELSE Sub2(P[1], P[2], 0, ti + (IF tf THEN 1 ELSE 0))
                    R == Reduce2(S[1], S[2])
                    M == IF tf /\ R[1] % 2 = 0 THEN R[1] + 1 ELSE R[1]
                IN RoundJam(pneg, M, ep + R[2])
            ELSE
                \* comparable: the exact sum in two limbs
                LET Th == IF d = 25 THEN 2 * nc ELSE nc \div 2^(24 - d)
                    Tl == IF d = 25 THEN 0 ELSE (nc % 2^(24 - d)) * 2^d
                    cBig == Th > P[1] \/ (Th = P[1] /\ Tl >= P[2])
                    S == IF pneg = cneg THEN Add2(Th, Tl, P[1], P[2])
                         ELSE IF cBig THEN Sub2(Th, Tl, P[1], P[2])
                         ELSE Sub2(P[1], P[2], Th, Tl)
                    R == Reduce2(S[1], S[2])
                    neg == IF pneg = cneg THEN pneg ELSE IF cBig THEN cneg ELSE pneg
                IN RoundJam(neg, R[1], ep + R[2])

\* a < b
F32Lt(a, b) ==
    IF a.m < 0 /\ b.m >= 0 THEN TRUE
    ELSE IF a.m >= 0 /\ b.m < 0 THEN FALSE
    ELSE IF a.m >= 0 THEN a.e < b.e \/ (a.e = b.e /\ a.m < b.m)
    ELSE a.e > b.e \/ (a.e = b.e /\ a.m < b.m)

F32Le(a, b) == ~F32Lt(b, a)

\* (float)n for an integer |n| < 2^30
IntToF32(n) == RoundJam(n < 0, Abs(n), 0)

\* (long)std::floor(a)
FloorToLong(a) ==
    IF a.e >= 0 THEN a.m * 2^a.e
    ELSE IF -a.e > 30 THEN (IF a.m < 0 THEN -1 ELSE 0)
    ELSE a.m \div 2^(-a.e)

\* the quotient bits of (Q + R / D) * 2^e until Q holds 27 bits
RECURSIVE RatLoop(_, _, _, _)
RatLoop(Q, R, D, e) ==
    IF Q >= 2^26 \/ e <= EMin - 3 THEN <<Q, R, e>>
    ELSE IF 2 * R >= D THEN RatLoop(2 * Q + 1, 2 * R - D, D, e - 1)
    ELSE RatLoop(2 * Q, 2 * R, D, e - 1)

\* the decimal literal n/d (n >= 0, d > 0) as the compiler reads it with an
\* f suffix: the nearest binary32 value
DecToF32(n, d) ==
    LET T == RatLoop(n \div d, n % d, d, 0)
    IN RoundJam(FALSE, IF T[2] # 0 /\ T[1] % 2 = 0 THEN T[1] + 1 ELSE T[1], T[3])

(***************************************************************************)
(* IEEE-754 binary64 arithmetic, for the driver's `double` computations.   *)
(* A mantissa of 53 bits and the products and quotients of two are held as *)
(* naturals in limbs of 15 bits, least significant first, no leading zero  *)
(* limb (<<>> is 0).  A double is [k |-> "fin", "inf" or "nan", s |-> its  *)
(* sign bit, m |-> mantissa, e |-> exponent] of value (-1)^s * m * 2^e.    *)
(***************************************************************************)
Limb == 32768
LimbBits == 15
DMantBits == 53
DEMin == -1074
DEMax == 971

BHead(a) == IF a = <<>> THEN 0 ELSE a[1]
BTail(a) == IF a = <<>> THEN <<>> ELSE Tail(a)

RECURSIVE BTrim(_)
BTrim(a) ==
    IF a = <<>> THEN <<>>
    ELSE IF a[Len(a)] = 0 THEN BTrim(SubSeq(a, 1, Len(a) - 1)) ELSE a

RECURSIVE BNat(_)
BNat(n) == IF n = 0 THEN <<>> ELSE <<n % Limb>> \o BNat(n \div Limb)

\* the value of a natural of at most two limbs
BToNat(a) == BHead(a) + Limb * BHead(BTail(a))

\* a + b + c, c a carry
RECURSIVE BAddC(_, _, _)
BAddC(a, b, c) ==
    IF a = <<>> /\ b = <<>> THEN (IF c = 0 THEN <<>> ELSE <<c>>)
    ELSE <<(BHead(a) + BHead(b) + c) % Limb>>
            \o BAddC(BTail(a), BTail(b), (BHead(a) + BHead(b) + c) \div Limb)

BAdd(a, b) == BAddC(a, b, 0)

\* a - b - c for a >= b + c, c a borrow; leading zero limbs are kept
RECURSIVE BSubB(_, _, _)
BSubB(a, b, c) ==
    IF a = <<>> THEN <<>>
    ELSE <<(BHead(a) - BHead(b) - c) % Limb>>
            \o BSubB(BTail(a), BTail(b),
                     IF BHead(a) - BHead(b) - c < 0 THEN 1 ELSE 0)

BSub(a, b) == BTrim(BSubB(a, b, 0))

\* the limbs i, i-1, ..., 1 of a and b compared: -1, 0 or 1
RECURSIVE BCmpAt(_, _, _)
BCmpAt(a, b, i) ==
    IF i = 0 THEN 0
    ELSE IF a[i] < b[i] THEN -1
    ELSE IF a[i] > b[i] THEN 1
    ELSE BCmpAt(a, b, i - 1)

BCmp(a, b) ==
    IF Len(a) < Len(b) THEN -1
    ELSE IF Len(a) > Len(b) THEN 1
    ELSE BCmpAt(a, b, Len(a))

\* a * d + c for one limb d and a carry c
RECURSIVE BMul1(_, _, _)
BMul1(a, d, c) ==
    IF a = <<>> THEN (IF c = 0 THEN <<>> ELSE <<c>>)
    ELSE <<(a[1] * d + c) % Limb>> \o BMul1(Tail(a), d, (a[1] * d + c) \div Limb)

RECURSIVE BMul(_, _)
BMul(a, b) ==
    IF a = <<>> \/ b = <<>> THEN <<>>
    ELSE BAdd(BMul1(a, b[1], 0),
              IF Len(b) = 1 THEN <<>> ELSE <<0>> \o BMul(a, Tail(b)))

\* a * 2^k
BShl(a, k) ==
    IF a = <<>> THEN <<>>
    ELSE [i \in 1..(k \div LimbBits) |-> 0] \o BMul1(a, 2^(k % LimbBits), 0)

\* a with its lowest q limbs dropped, then shifted right by r < 15 bits
BShrLimbs(a, r) ==
    BTrim([i \in 1..Len(a) |->
              a[i] \div 2^r
                + (IF i < Len(a) THEN (a[i + 1] % 2^r) * 2^(LimbBits - r) ELSE 0)])

\* floor(a / 2^k)
BShr(a, k) ==
    IF k \div LimbBits >= Len(a) THEN <<>>
    ELSE BShrLimbs(SubSeq(a, k \div LimbBits + 1, Len(a)), k % LimbBits)

\* whether a mod 2^k is not 0
BLow(a, k) ==
    \/ \E i \in 1..Len(a) : i <= k \div LimbBits /\ a[i] # 0
    \/ /\ k \div LimbBits < Len(a)
       /\ a[k \div LimbBits + 1] % 2^(k % LimbBits) # 0

\* bit i of a, bit 0 the lowest
BBit(a, i) ==
    IF i \div LimbBits >= Len(a) THEN 0
    ELSE (a[i \div LimbBits + 1] \div 2^(i % LimbBits)) % 2

BBitLen(a) ==
    IF a = <<>> THEN 0 ELSE LimbBits * (Len(a) - 1) + BitLen(a[Len(a)])

BOdd(a) == BHead(a) % 2 = 1

D64(s, m, e) == [k |-> "fin", s |-> s, m |-> m, e |-> e]
DZero(s) == D64(s, <<>>, DEMin)
DInf(s) == [k |-> "inf", s |-> s, m |-> <<>>, e |-> 0]
DNaN == [k |-> "nan", s |-> FALSE, m |-> <<>>, e |-> 0]
DIsZero(a) == a.k = "fin" /\ a.m = <<>>

\* the mantissa q at exponent e after rounding, renormalised if the rounding
\* carried into bit 53
DPack(s, q, e) ==
    IF q = <<>> THEN DZero(s)
    ELSE IF BBitLen(q) > DMantBits THEN
        (IF e + 1 > DEMax THEN DInf(s) ELSE D64(s, BShr(q, 1), e + 1))
    ELSE IF e > DEMax THEN DInf(s)
    ELSE D64(s, q, e)

\* M with its lowest sh > 0 bits rounded away, to nearest, ties to even
DRoundBits(M, sh, q) ==
    IF BBit(M, sh - 1) = 1 /\ (BLow(M, sh - 1) \/ BOdd(q))
    THEN BAdd(q, <<1>>) ELSE q

\* (-1)^s * M * 2^e rounded to the nearest double, ties to even
DRoundAt(s, M, e, L) ==
    IF M = <<>> THEN DZero(s)
    ELSE IF Max(L - DMantBits, DEMin - e) <= 0 THEN
        (IF e - Min(DMantBits - L, e - DEMin) > DEMax THEN DInf(s)
         ELSE D64(s, BShl(M, Min(DMantBits - L, e - DEMin)),
                  e - Min(DMantBits - L, e - DEMin)))
    ELSE DPack(s,
               DRoundBits(M, Max(L - DMantBits, DEMin - e),
                          BShr(M, Max(L - DMantBits, DEMin - e))),
               e + Max(L - DMantBits, DEMin - e))

DRound(s, M, e) == DRoundAt(s, M, e, BBitLen(M))

DNeg(a) == [a EXCEPT !.s = ~a.s]

\* the sum of two finite non-zero doubles x and y, x.e >= y.e, from their
\* mantissas X and Y aligned at exponent e
DAddAligned(x, y, X, Y, e) ==
    IF x.s = y.s THEN DRound(x.s, BAdd(X, Y), e)
    ELSE IF BCmp(X, Y) = 0 THEN DZero(FALSE)
    ELSE IF BCmp(X, Y) > 0 THEN DRound(x.s, BSub(X, Y), e)
    ELSE DRound(y.s, BSub(Y, X), e)

\* far apart, the smaller operand only tells which way the result leans
DAddOrdered(x, y) ==
    IF x.e - y.e > 120 THEN DAddAligned(x, y, BShl(x.m, 64), <<1>>, x.e - 64)
    ELSE DAddAligned(x, y, BShl(x.m, x.e - y.e), y.m, y.e)

\* a + b
DAdd(a, b) ==
    IF a.k = "nan" \/ b.k = "nan" THEN DNaN
    ELSE IF a.k = "inf" THEN (IF b.k = "inf" /\ a.s # b.s THEN DNaN ELSE a)
    ELSE IF b.k = "inf" THEN b
    ELSE IF a.m = <<>> /\ b.m = <<>> THEN DZero(a.s /\ b.s)
    ELSE IF a.m = <<>> THEN b
    ELSE IF b.m = <<>> THEN a
    ELSE IF a.e >= b.e THEN DAddOrdered(a, b)
    ELSE DAddOrdered(b, a)

DSub(a, b) == DAdd(a, DNeg(b))

\* a * b
DMul(a, b) ==
    IF a.k = "nan" \/ b.k = "nan" THEN DNaN
    ELSE IF a.k = "inf" \/ b.k = "inf" THEN
        (IF DIsZero(a) \/ DIsZero(b) THEN DNaN ELSE DInf(a.s # b.s))
    ELSE IF a.m = <<>> \/ b.m = <<>> THEN DZero(a.s # b.s)
    ELSE DRound(a.s # b.s, BMul(a.m, b.m), a.e + b.e)

\* n further quotient bits of R / D appended to Q: <<quotient, remainder>>,
\* R2 being 2 * R
RECURSIVE BDivLoop(_, _, _, _)
BDivStep(Q, R2, D, n) ==
    IF Len(Q) >= 0 /\ BCmp(R2, D) >= 0
    THEN BDivLoop(BAddC(Q, Q, 1), BSub(R2, D), D, n - 1)
    ELSE BDivLoop(BAdd(Q, Q), R2, D, n - 1)

BDivLoop(Q, R, D, n) ==
    IF n = 0 THEN <<Q, R>> ELSE BDivStep(Q, BAdd(R, R), D, n)

\* the quotient of two 53-bit mantissas na / nb, of value below 2, to 56
\* fraction bits, the remainder OR-ed into one bit more
DQuotient(QR) ==
    IF QR[2] = <<>> THEN BShl(QR[1], 1) ELSE BAddC(QR[1], QR[1], 1)

DDivNorm(s, na, nb, e) ==
    IF BCmp(na, nb) >= 0
    THEN DRound(s, DQuotient(BDivLoop(<<1>>, BSub(na, nb), nb, 56)), e - 57)
    ELSE DRound(s, DQuotient(BDivLoop(<<>>, na, nb, 56)), e - 57)

\* a / b
DDiv(a, b) ==
    IF a.k = "nan" \/ b.k = "nan" THEN DNaN
    ELSE IF a.k = "inf" THEN (IF b.k = "inf" THEN DNaN ELSE DInf(a.s # b.s))
    ELSE IF b.k = "inf" THEN DZero(a.s # b.s)
    ELSE IF b.m = <<>> THEN (IF a.m = <<>> THEN DNaN ELSE DInf(a.s # b.s))
    ELSE IF a.m = <<>> THEN DZero(a.s # b.s)
    ELSE DDivNorm(a.s # b.s,
                  BShl(a.m, DMantBits - BBitLen(a.m)),
                  BShl(b.m, DMantBits - BBitLen(b.m)),
                  (a.e - (DMantBits - BBitLen(a.m)))
                     - (b.e - (DMantBits - BBitLen(b.m))))

\* a < b: the sign of a - b, which no rounding changes
DLtDiff(d) == d.k # "nan" /\ d.s /\ ~DIsZero(d)
DLt(a, b) == DLtDiff(DSub(a, b))
DGt(a, b) == DLt(b, a)

\* (double)n for an integer n
DFromInt(n) == DRound(n < 0, BNat(Abs(n)), 0)

\* the decimal n/d as strtod and the compiler read it: the nearest double
DFromDec(n, d) == DDiv(DFromInt(n), DFromInt(d))

\* the not-a-number and a mantissa of at most 30 bits, the bits lost OR-ed
\* into its last bit
F32NaN == F32(2^(MantBits + 1), EMax)
DJam(q, lost) == IF lost /\ ~BOdd(q) THEN BToNat(q) + 1 ELSE BToNat(q)

\* (float)a
DToF32At(a, L) ==
    IF L <= 28 THEN RoundJam(a.s, BToNat(a.m), a.e)
    ELSE RoundJam(a.s, DJam(BShr(a.m, L - 28), BLow(a.m, L - 28)), a.e + (L - 28))

DToF32(a) ==
    IF a.k = "nan" THEN F32NaN
    ELSE IF a.k = "inf" THEN F32Inf(a.s)
    ELSE DToF32At(a, BBitLen(a.m))

(***************************************************************************)
(* The fixed coefficients and limits of the three C++ models (the bit      *)
(* patterns of the hardware) and the rounding helpers                      *)
(***************************************************************************)
C0 == f32_from_hex(\h3C86, \h4B8B)
C1 == f32_from_hex(\h3DE2, \h1965)
C2 == f32_from_hex(\hBDE4, \hFC8E)
C3 == f32_from_hex(\h3AEC, \h5C01)
C4 == f32_from_hex(\hBEA7, \h5178)
C5 == f32_from_hex(\h3F0B, \h6AB1)
C6 == f32_from_hex(\hBE5F, \h6EF6)
C7A == f32_from_hex(\h3B9D, \h4952)
C7B == f32_from_hex(\hB8A5, \h05D6)

YSAT == f32_from_hex(\h4140, \h0000)
RECIP_YSAT == f32_from_hex(\h3DAA, \hAAAB)
W_TGT == f32_from_hex(\h42C8, \h0000)
INT2RADS == f32_from_hex(\h3F70, \hCAF0)

mul_rn(a, b) == F32Mul(a, b)
add_rn(a, b) == F32Add(a, b)

\* a clamp that forgets the lower limit
clamp_no_low(v, lo, hi) == IF F32Lt(hi, v) THEN hi ELSE v

\* std::clamp(v, lo, hi)
clamp(v, lo, hi) == IF F32Lt(v, lo) THEN lo ELSE IF F32Lt(hi, v) THEN hi ELSE v

(***************************************************************************)
(* DeltaPid2TapAw                                                          *)
(***************************************************************************)
\* a reset() that forgets the older unsaturated output
reset_keeps_y_unsat_2(c) ==
    [c EXCEPT !.dy1 = F32Zero,
              !.w1 = F32Zero, !.w2 = F32Zero,
              !.x1 = F32Zero, !.x2 = F32Zero,
              !.y_unsat_1 = F32Zero,
              !.y_sat_1 = F32Zero, !.y_sat_2 = F32Zero]

\* a reset() that forgets the previous delta
reset_keeps_dy1(c) ==
    [c EXCEPT !.w1 = F32Zero, !.w2 = F32Zero,
              !.x1 = F32Zero, !.x2 = F32Zero,
              !.y_unsat_1 = F32Zero, !.y_unsat_2 = F32Zero,
              !.y_sat_1 = F32Zero, !.y_sat_2 = F32Zero]

\* DeltaPid2TapAw::reset(): the instance c with its histories zeroed
reset(c) ==
    [c EXCEPT !.dy1 = F32Zero,
              !.w1 = F32Zero, !.w2 = F32Zero,
              !.x1 = F32Zero, !.x2 = F32Zero,
              !.y_unsat_1 = F32Zero, !.y_unsat_2 = F32Zero,
              !.y_sat_1 = F32Zero, !.y_sat_2 = F32Zero]

\* DeltaPid2TapAw(y_sat_limit)
DeltaPid2TapAw(y_sat_limit) ==
    reset([YSAT_ |-> y_sat_limit,
           dy1 |-> F32Zero, w1 |-> F32Zero, w2 |-> F32Zero,
           x1 |-> F32Zero, x2 |-> F32Zero,
           y_unsat_1 |-> F32Zero, y_unsat_2 |-> F32Zero,
           y_sat_1 |-> F32Zero, y_sat_2 |-> F32Zero])

\* DeltaPid2TapAw::step(w, x), the unsaturated delta: the nine products
\* accumulated in order, each product and each sum rounded.  The serial
\* multiply-then-add of pid_compare.cpp rounds in the same places.
step_dy(c, w, x) ==
    add_rn(add_rn(add_rn(add_rn(add_rn(add_rn(add_rn(add_rn(add_rn(
        F32Zero,
        mul_rn(C0, c.dy1)),
        mul_rn(C1, w)),
        mul_rn(C2, c.w1)),
        mul_rn(C3, c.w2)),
        mul_rn(C4, x)),
        mul_rn(C5, c.x1)),
        mul_rn(C6, c.x2)),
        mul_rn(C7A, add_rn(c.y_sat_1, F32Neg(c.y_unsat_1)))),
        mul_rn(C7B, add_rn(c.y_sat_2, F32Neg(c.y_unsat_2))))

\* a shift that overwrites w1 before copying it to w2
step_shift_w1_first(c, w, x, dy, y_unsat, y_sat) ==
    [st |-> [c EXCEPT !.dy1 = dy,
                      !.w1 = w, !.w2 = w,
                      !.x2 = c.x1, !.x1 = x,
                      !.y_unsat_2 = c.y_unsat_1, !.y_unsat_1 = y_unsat,
                      !.y_sat_2 = c.y_sat_1, !.y_sat_1 = y_sat],
     y |-> y_sat, dy |-> dy, y_unsat |-> y_unsat]

\* a shift that stores the new saturated output in both history slots
step_shift_y_sat_2_new(c, w, x, dy, y_unsat, y_sat) ==
    [st |-> [c EXCEPT !.dy1 = dy,
                      !.w2 = c.w1, !.w1 = w,
                      !.x2 = c.x1, !.x1 = x,
                      !.y_unsat_2 = c.y_unsat_1, !.y_unsat_1 = y_unsat,
                      !.y_sat_2 = y_sat, !.y_sat_1 = y_sat],
     y |-> y_sat, dy |-> dy, y_unsat |-> y_unsat]

\* DeltaPid2TapAw::step(w, x), the state update: the histories shifted
step_shift(c, w, x, dy, y_unsat, y_sat) ==
    [st |-> [c EXCEPT !.dy1 = dy,
                      !.w2 = c.w1, !.w1 = w,
                      !.x2 = c.x1, !.x1 = x,
                      !.y_unsat_2 = c.y_unsat_1, !.y_unsat_1 = y_unsat,
                      !.y_sat_2 = c.y_sat_1, !.y_sat_1 = y_sat],
     y |-> y_sat, dy |-> dy, y_unsat |-> y_unsat]

\* a step() that returns and stores the accumulator unclipped
step_sat_no_clip(c, w, x, dy, y_unsat) ==
    step_shift(c, w, x, dy, y_unsat, y_unsat)

\* DeltaPid2TapAw::step(w, x), the saturation of the accumulator
step_sat(c, w, x, dy, y_unsat) ==
    step_shift(c, w, x, dy, y_unsat, clamp(y_unsat, F32Neg(c.YSAT_), c.YSAT_))

\* an accumulation that takes the delta off y_unsat_1
step_acc_sub(c, w, x, dy) ==
    step_sat(c, w, x, dy, add_rn(c.y_unsat_1, F32Neg(dy)))

\* DeltaPid2TapAw::step(w, x), the accumulation y_unsat = y_unsat_1 + dy
step_acc(c, w, x, dy) == step_sat(c, w, x, dy, add_rn(c.y_unsat_1, dy))

\* DeltaPid2TapAw::step(w, x) on the instance c: the instance afterwards
\* (st), the value returned (y) and the locals dy and y_unsat
step(c, w, x) == step_acc(c, w, x, step_dy(c, w, x))

(***************************************************************************)
(* EncoderFloor                                                            *)
(***************************************************************************)
\* 0.005f, the sample period of every harness
Ts == DecToF32(5, 1000)

\* EncoderFloor(Ts_)
EncoderFloor(Ts_) ==
    [Ts |-> Ts_, rad_per_cnt |-> mul_rn(INT2RADS, Ts_), int2radfac |-> INT2RADS,
     theta_rad |-> F32Zero, C_prev |-> 0]

\* a sample() that emits the count but does not carry it forward
sample_emit_no_carry(e, theta, C_now) ==
    [enc |-> [e EXCEPT !.theta_rad = theta],
     spdcnt |-> C_now - e.C_prev,
     x_meas |-> mul_rn(IntToF32(C_now - e.C_prev), e.int2radfac)]

\* (int)(C_now - C_prev) and the outputs of sample(): the encoder afterwards,
\* the count emitted and the measured velocity.  A long the model can hold is
\* an int unchanged.
sample_emit(e, theta, C_now) ==
    [enc |-> [e EXCEPT !.theta_rad = theta, !.C_prev = C_now],
     spdcnt |-> C_now - e.C_prev,
     x_meas |-> mul_rn(IntToF32(C_now - e.C_prev), e.int2radfac)]

\* a sample() that truncates the quotient toward zero: (long)C_real
sample_count_trunc(e, theta) ==
    sample_emit(e, theta,
                IF F32Div(theta, e.rad_per_cnt).m < 0
                THEN -FloorToLong(F32Neg(F32Div(theta, e.rad_per_cnt)))
                ELSE FloorToLong(F32Div(theta, e.rad_per_cnt)))

\* EncoderFloor::sample(), from the angle integrated: floor and carry
sample_count(e, theta) ==
    sample_emit(e, theta, FloorToLong(F32Div(theta, e.rad_per_cnt)))

\* EncoderFloor::sample(x_true) of PID_MY_DIGIT.cpp and pid_last_compare.cpp:
\* the angle is integrated with a fused multiply-add
sample(e, x_true) == sample_count(e, F32Fma(x_true, e.Ts, e.theta_rad))

\* EncoderFloor::sample(x_true) of pid_compare.cpp: theta_rad += x_true * Ts
sample_unfused(e, x_true) ==
    sample_count(e, F32Add(e.theta_rad, F32Mul(x_true, e.Ts)))

\* the driver's reading of the status register: (int16_t)(raw & 0xFFFF)
status_spdcnt(raw) ==
    IF (raw % 65536) >= 32768 THEN (raw % 65536) - 65536 ELSE raw % 65536

(***************************************************************************)
(* GeneralPidControllerF32 of pid_compare.cpp.  Every operation of an      *)
(* expression is rounded to float on its own (no contraction into fused    *)
(* multiply-adds), as in the builds the sources recommend, so that         *)
(* DeltaPid2TapAw::step of pid_compare.cpp, which sums the same products   *)
(* in the same order as the add_rn/mul_rn chain, is the operator step.     *)
(***************************************************************************)
std_min(a, b) == IF F32Lt(b, a) THEN b ELSE a
std_max(a, b) == IF F32Lt(a, b) THEN b ELSE a

\* GeneralPidControllerF32(kp, ki, kd, a, b, c, kb, dt, out_min, out_max)
GeneralPidControllerF32(kp, ki, kd, a, b, c, kb, dt, out_min, out_max) ==
    [Kp |-> kp, Ki |-> ki, Kd |-> kd,
     a_param |-> a, b_weight |-> b, c_weight |-> c, Kb |-> kb,
     dt |-> dt, output_min |-> out_min, output_max |-> out_max,
     integral_term |-> F32Zero, derivative_term_prev |-> F32Zero,
     setpoint_prev |-> F32Zero, measurement_prev |-> F32Zero,
     unsaturated_output_prev |-> F32Zero, saturated_output_prev |-> F32Zero]

\* integral_term += Ki * error * dt, without the back-calculation
calculate_integral_no_aw(g, error, saturation_error) ==
    F32Add(g.integral_term, F32Mul(F32Mul(g.Ki, error), g.dt))

\* integral_term += Ki * (error + Kb * saturation_error) * dt
calculate_integral(g, error, saturation_error) ==
    F32Add(g.integral_term,
           F32Mul(F32Mul(g.Ki, F32Add(error, F32Mul(g.Kb, saturation_error))),
                  g.dt))

\* the state update and the return value of calculate()
calculate_update(g, setpoint, measurement, d_term, integral, unsat, sat) ==
    [st |-> [g EXCEPT !.integral_term = integral,
                      !.setpoint_prev = setpoint,
                      !.measurement_prev = measurement,
                      !.derivative_term_prev = d_term,
                      !.unsaturated_output_prev = unsat,
                      !.saturated_output_prev = sat],
     y |-> sat, y_unsat |-> unsat]

calculate_sat(g, setpoint, measurement, d_term, integral, unsat) ==
    calculate_update(g, setpoint, measurement, d_term, integral, unsat,
                     std_max(g.output_min, std_min(unsat, g.output_max)))

calculate_sum(g, setpoint, measurement, p_term, d_term, integral) ==
    calculate_sat(g, setpoint, measurement, d_term, integral,
                  F32Add(F32Add(p_term, integral), d_term))

\* d_term from Td and the common denominator a*Td + dt
calculate_d_term(g, setpoint, measurement, Td, common_denominator) ==
    F32Add(F32Mul(F32Div(F32Mul(g.a_param, Td), common_denominator),
                  g.derivative_term_prev),
           F32Mul(F32Div(F32Mul(g.Kp, Td), common_denominator),
                  F32Sub(F32Mul(g.c_weight, F32Sub(setpoint, g.setpoint_prev)),
                         F32Sub(measurement, g.measurement_prev))))

calculate_terms(g, setpoint, measurement, Td) ==
    calculate_sum(g, setpoint, measurement,
        F32Mul(g.Kp, F32Sub(F32Mul(g.b_weight, setpoint), measurement)),
        calculate_d_term(g, setpoint, measurement, Td,
                         F32Add(F32Mul(g.a_param, Td), g.dt)),
        calculate_integral(g, F32Sub(setpoint, measurement),
                           F32Sub(g.saturated_output_prev,
                                  g.unsaturated_output_prev)))

\* GeneralPidControllerF32::calculate(setpoint, measurement)
calculate(g, setpoint, measurement) ==
    calculate_terms(g, setpoint, measurement,
        IF F32Lt(f32_from_hex(\h2B8C, \hBCCC), g.Kp)
        THEN F32Div(g.Kd, g.Kp) ELSE F32Zero)

\* the first-order plant of the harnesses: x_true += Ts*(Ku*y - lam*x_true)
Ku == DecToF32(50, 1)
lam == DecToF32(5, 1)
plant(x_true, y) ==
    add_rn(x_true, mul_rn(Ts, add_rn(mul_rn(Ku, y), F32Neg(mul_rn(lam, x_true)))))

(***************************************************************************)
(* The driver's coefficient derivation (app.c), in double precision        *)
(***************************************************************************)
GATE_HZ == 200
\* Ts_sec: (1.0/(double)(GATE_HZ))
Ts_sec == DDiv(DFromInt(1), DFromInt(GATE_HZ))
\* the literals 1e30 and 1e20
D1e30 == DRound(FALSE, BMul(BNat(10^9), BMul(BNat(10^9), BMul(BNat(10^9), BNat(10^3)))), 0)
D1e20 == DRound(FALSE, BMul(BNat(10^9), BMul(BNat(10^9), BNat(10^2))), 0)
D0 == DZero(FALSE)
D1 == DFromInt(1)
D2 == DFromInt(2)

compute_time_constants(Kp, Ki, Kd, N) ==
    [Ti |-> IF DGt(Ki, D0) /\ DGt(Kp, D0) THEN DDiv(Kp, Ki) ELSE D1e30,
     Td |-> IF DGt(Kp, D0) THEN DDiv(Kd, Kp) ELSE D0,
     a |-> IF DGt(N, D0) THEN DDiv(D1, N) ELSE D0]

\* C7B = -C7A * C0, without the coupling to C0
coeffs_C7B_uncoupled(C7A_, C0_) == DNeg(C7A_)

\* C7B = -C7A * C0
coeffs_C7B(C7A_, C0_) == DMul(DNeg(C7A_), C0_)

\* the stores through the out pointers: every coefficient cast to float
coeffs_store(d, C7B_) ==
    [Ti |-> d.Ti, Td |-> d.Td, a |-> d.a, den |-> d.den,
     Ts_over_Ti |-> d.Ts_over_Ti,
     C0 |-> d.C0, C7A |-> d.C7A, C7B |-> C7B_,
     a0 |-> DToF32(d.C0),
     c1 |-> DToF32(d.C1), c2 |-> DToF32(d.C2), c3 |-> DToF32(d.C3),
     c4 |-> DToF32(d.C4), c5 |-> DToF32(d.C5), c6 |-> DToF32(d.C6),
     c7a |-> DToF32(d.C7A), c7b |-> DToF32(C7B_)]

coeffs_taps(d) == coeffs_store(d, coeffs_C7B(d.C7A, d.C0))

\* C0 .. C7A from the time constants and den, Ts_over_Ti
coeffs_body(Kp, Ki, b, c, Kb, Ti, Td, a, den, Ts_over_Ti) ==
    coeffs_taps(
    [Ti |-> Ti, Td |-> Td, a |-> a, den |-> den, Ts_over_Ti |-> Ts_over_Ti,
     C0 |-> IF DGt(den, D0) THEN DDiv(DMul(a, Td), den) ELSE D0,
     C1 |-> DMul(Kp, DAdd(DAdd(b, Ts_over_Ti), DDiv(DMul(Td, c), den))),
     C2 |-> DDiv(DMul(DNeg(Kp),
                      DAdd(DAdd(DMul(b, DAdd(Ts_sec, DMul(DMul(D2, a), Td))),
                                DMul(DMul(a, Td), Ts_over_Ti)),
                           DMul(DMul(D2, Td), c))),
                 den),
     C3 |-> DDiv(DMul(DMul(Kp, Td), DAdd(DMul(a, b), c)), den),
     C4 |-> DMul(DNeg(Kp), DAdd(DAdd(D1, Ts_over_Ti), DDiv(Td, den))),
     C5 |-> DDiv(DMul(Kp,
                      DAdd(DAdd(DAdd(Ts_sec, DMul(DMul(D2, a), Td)),
                                DMul(DMul(a, Td), Ts_over_Ti)),
                           DMul(D2, Td))),
                 den),
     C6 |-> DDiv(DMul(DNeg(Kp), DMul(Td, DAdd(a, D1))), den),
     C7A |-> DMul(DMul(Ki, Kb), Ts_sec)])

\* den = Ts + a*Td and Ts_over_Ti = (Ti < 1e20) ? (Ts/Ti) : 0
coeffs_den(Kp, Ki, b, c, Kb, tc) ==
    coeffs_body(Kp, Ki, b, c, Kb, tc.Ti, tc.Td, tc.a,
                DAdd(Ts_sec, DMul(tc.a, tc.Td)),
                IF DLt(tc.Ti, D1e20) THEN DDiv(Ts_sec, tc.Ti) ELSE D0)

\* compute_coeffs: the doubles it computes and the floats it stores
compute_coeffs(Kp, Ki, Kd, N, b, c, Kb) ==
    coeffs_den(Kp, Ki, b, c, Kb, compute_time_constants(Kp, Ki, Kd, N))

(***************************************************************************)
(* State                                                                   *)
(***************************************************************************)
VARIABLES
    ctrl,   \* the DeltaPid2TapAw instances: instance -> its fields
    call,   \* per instance, the last call made on it, with step()'s locals
            \* and (pre) the instance as the call found it
    log,    \* per instance, the (w, x) pairs fed to it since its last reset
    outs,   \* per instance, the values step() returned since its last reset
    dirty,  \* per instance, whether its last reset() found a non-zero history
    enc,        \* the EncoderFloor of the loop
    spdcnt,     \* the count the last sample() emitted
    x_meas,     \* the measured velocity the last sample() emitted
    thetaHist,  \* theta_rad at construction and after every sample()
    spdHist,    \* the counts emitted, in order
    sp,         \* the driver's last reading of the speed count register
    drvPc,      \* the driver: "ask", "asked" (tuning read), "computed"
    tuning,     \* the seven doubles the driver asked for
    coef,       \* what compute_coeffs computed and stored
    ask,        \* ask_double: its buffer, read_line_echo's index, position
    cmp,        \* pid_compare.cpp's main: its locals and position
    gold        \* pid_last_compare.cpp's main: its locals and position

pidVars == <<ctrl, call, log, outs, dirty>>
encVars == <<enc, spdcnt, x_meas, thetaHist, spdHist, sp>>
drvVars == <<drvPc, tuning, coef, ask>>
harnessVars == <<cmp, gold>>
vars == <<pidVars, encVars, drvVars, harnessVars>>

\* the instances: one per control loop; the second one replays the first
Inst == {1, 2}

MaxSteps == 3
MaxDetSteps == 2
SpdCntIn == 117
MaxSamples == 3

\* saturation limits an instance is constructed with
YsatLimits == {F32Zero, YSAT}
\* a measured velocity of SpdCntIn counts per gate period
XMeasIn == mul_rn(IntToF32(SpdCntIn), INT2RADS)
InputW == {F32Zero, W_TGT, F32Neg(W_TGT)}
InputX == {F32Zero, XMeasIn, F32Neg(XMeasIn)}
DetInputs == {<<F32Zero, F32Zero>>, <<W_TGT, F32Neg(XMeasIn)>>, <<F32Neg(W_TGT), XMeasIn>>}

NoCall == [op |-> "ctor", w |-> F32Zero, x |-> F32Zero, y |-> F32Zero,
           dy |-> F32Zero, y_unsat |-> F32Zero, pre |-> DeltaPid2TapAw(F32Zero)]

HasHistory(c) ==
    \/ c.dy1 # F32Zero \/ c.w1 # F32Zero \/ c.w2 # F32Zero
    \/ c.x1 # F32Zero \/ c.x2 # F32Zero
    \/ c.y_unsat_1 # F32Zero \/ c.y_unsat_2 # F32Zero
    \/ c.y_sat_1 # F32Zero \/ c.y_sat_2 # F32Zero

PidInit ==
    /\ \E y1 \in YsatLimits, y2 \in YsatLimits :
          ctrl = (1 :> DeltaPid2TapAw(y1)) @@ (2 :> DeltaPid2TapAw(y2))
    /\ call = [i \in Inst |-> NoCall]
    /\ log = [i \in Inst |-> <<>>]
    /\ outs = [i \in Inst |-> <<>>]
    /\ dirty = [i \in Inst |-> FALSE]

EncInit ==
    /\ enc = EncoderFloor(Ts)
    /\ spdcnt = 0
    /\ x_meas = F32Zero
    /\ thetaHist = <<F32Zero>>
    /\ spdHist = <<>>
    /\ sp = 0

(***************************************************************************)
(* The driver's line input: read_line_echo and ask_double                  *)
(***************************************************************************)
\* <ctype.h> in the "C" locale
isprint(ch) == ch >= 32 /\ ch <= 126
isspace(ch) == ch = 32 \/ (ch >= 9 /\ ch <= 13)
isdigit(ch) == ch >= 48 /\ ch <= 57

\* a char array of maxlen cells that nothing was stored in yet, and the two
\* cells behind it: cells 0..maxlen-1 are the array, -1 is a cell never
\* written
FreshLine(maxlen) == [k \in 0..(maxlen + 1) |-> -1]

\* the string at buf + i: the bytes before the first NUL
RECURSIVE CString(_, _)
CString(buf, i) ==
    IF i \notin DOMAIN buf \/ buf[i] = 0 THEN <<>>
    ELSE <<buf[i]>> \o CString(buf, i + 1)

\* one pass of the for (;;) loop with maxlen - 1 replaced by maxlen
read_line_echo_no_room(buf, maxlen, n, ch) ==
    IF ch = 13 \/ ch = 10
    THEN [buf |-> [buf EXCEPT ![n] = 0], n |-> n, echo |-> <<13, 10>>,
          ret |-> TRUE]
    ELSE IF ch = 8 \/ ch = 127
    THEN IF n > 0
         THEN [buf |-> buf, n |-> n - 1, echo |-> <<8, 32, 8>>, ret |-> FALSE]
         ELSE [buf |-> buf, n |-> n, echo |-> <<>>, ret |-> FALSE]
    ELSE IF isprint(ch) /\ n < maxlen
    THEN [buf |-> [buf EXCEPT ![n] = ch], n |-> n + 1, echo |-> <<ch>>,
          ret |-> FALSE]
    ELSE [buf |-> buf, n |-> n, echo |-> <<>>, ret |-> FALSE]

\* read_line_echo(buf, maxlen), one pass of its for (;;) loop: ch is what
\* getchar() returned (-1 is EOF) and n the index before the pass. echo is
\* what the pass wrote with putchar, ret whether it returned n.
read_line_echo(buf, maxlen, n, ch) ==
    IF ch = 13 \/ ch = 10
    THEN [buf |-> [buf EXCEPT ![n] = 0], n |-> n, echo |-> <<13, 10>>,
          ret |-> TRUE]
    ELSE IF ch = 8 \/ ch = 127
    THEN IF n > 0
         THEN [buf |-> buf, n |-> n - 1, echo |-> <<8, 32, 8>>, ret |-> FALSE]
         ELSE [buf |-> buf, n |-> n, echo |-> <<>>, ret |-> FALSE]
    ELSE IF isprint(ch) /\ n < maxlen - 1
    THEN [buf |-> [buf EXCEPT ![n] = ch], n |-> n + 1, echo |-> <<ch>>,
          ret |-> FALSE]
    ELSE [buf |-> buf, n |-> n, echo |-> <<>>, ret |-> FALSE]

\* strtod(s, &endp) for the decimal form without an exponent: white space,
\* an optional sign, digits with an optional point, at least one digit.
\* endp is the number of characters converted, 0 when there is no
\* conversion (endp == line), and v the value.
RECURSIVE SkipSpace(_, _)
SkipSpace(s, i) ==
    IF i <= Len(s) /\ isspace(s[i]) THEN SkipSpace(s, i + 1) ELSE i

RECURSIVE DigitsEnd(_, _)
DigitsEnd(s, i) ==
    IF i <= Len(s) /\ isdigit(s[i]) THEN DigitsEnd(s, i + 1) ELSE i

\* acc followed by the digits s[i..j-1], as a decimal number
RECURSIVE DigitsVal(_, _, _, _)
DigitsVal(s, i, j, acc) ==
    IF i >= j THEN acc ELSE DigitsVal(s, i + 1, j, acc * 10 + (s[i] - 48))

strtod_end(s, neg, i1, i2, f1, f2) ==
    IF (i2 - i1) + (f2 - f1) = 0 THEN [endp |-> 0, v |-> D0]
    ELSE [endp |-> f2 - 1,
          v |-> IF neg
                THEN DNeg(DFromDec(DigitsVal(s, f1, f2, DigitsVal(s, i1, i2, 0)),
                                   10^(f2 - f1)))
                ELSE DFromDec(DigitsVal(s, f1, f2, DigitsVal(s, i1, i2, 0)),
                              10^(f2 - f1))]

strtod_frac(s, neg, i1, i2) ==
    IF i2 <= Len(s) /\ s[i2] = 46
    THEN strtod_end(s, neg, i1, i2, i2 + 1, DigitsEnd(s, i2 + 1))
    ELSE strtod_end(s, neg, i1, i2, i2, i2)

strtod_sign(s, i0) ==
    strtod_frac(s, i0 <= Len(s) /\ s[i0] = 45,
                IF i0 <= Len(s) /\ s[i0] \in {43, 45} THEN i0 + 1 ELSE i0,
                DigitsEnd(s, IF i0 <= Len(s) /\ s[i0] \in {43, 45}
                             THEN i0 + 1 ELSE i0))

strtod(s) == strtod_sign(s, SkipSpace(s, 1))

\* ask_double before main calls it
AskIdle ==
    [pc |-> "idle", maxlen |-> 1, buf |-> FreshLine(1), n |-> 0,
     echo |-> <<>>, out |-> <<>>, key |-> 0, n0 |-> 0, ret |-> -1,
     seen |-> <<>>, cases |-> {}, v |-> D0]

\* ask_double(prompt) up to its first getchar(): the prompt is printed and
\* read_line_echo(line, sizeof(line)) starts with n = 0. maxlen is
\* sizeof(line).
ask_double_call(maxlen) ==
    [pc |-> "getchar", maxlen |-> maxlen, buf |-> FreshLine(maxlen), n |-> 0,
     echo |-> <<>>, out |-> <<"prompt">>, key |-> 0, n0 |-> 0, ret |-> -1,
     seen |-> <<>>, cases |-> {}, v |-> D0]

\* ask_double after read_line_echo returned r.n: s is the line and p what
\* strtod made of it
ask_double_line(a, r, s, p) ==
    IF r.n <= 0
    THEN [a EXCEPT !.buf = r.buf, !.n = 0, !.echo = r.echo, !.ret = r.n,
                   !.seen = s, !.out = <<"prompt">>,
                   !.cases = a.cases \cup {"empty"}]
    ELSE IF p.endp # 0
    THEN [a EXCEPT !.buf = r.buf, !.n = r.n, !.echo = r.echo, !.ret = r.n,
                   !.seen = s, !.out = <<>>, !.v = p.v, !.pc = "returned"]
    ELSE [a EXCEPT !.buf = r.buf, !.n = 0, !.echo = r.echo, !.ret = r.n,
                   !.seen = s, !.out = <<"again", "prompt">>,
                   !.cases = a.cases \cup {"unparsed"}]

\* ask_double from one getchar() to the next one, or to its return: r is
\* what the pass of read_line_echo did with the character. key, n0, ret,
\* seen and cases are history: the character, the index before it, what
\* read_line_echo returned (-1: it did not return), the line it returned
\* and what happened since the call.
ask_double_pass(a, r, ch) ==
    IF r.ret
    THEN ask_double_line([a EXCEPT !.key = ch, !.n0 = a.n], r,
                         CString(r.buf, 0), strtod(CString(r.buf, 0)))
    ELSE [a EXCEPT !.buf = r.buf, !.n = r.n, !.echo = r.echo, !.out = <<>>,
                   !.key = ch, !.n0 = a.n, !.ret = -1,
                   !.cases = a.cases
                       \cup (IF isprint(ch) /\ r.n = a.n THEN {"full"} ELSE {})
                       \cup (IF ch \in {8, 127} /\ a.n = 0 THEN {"bs0"}
                             ELSE {})]

ask_double(a, ch) ==
    ask_double_pass(a, read_line_echo(a.buf, a.maxlen, a.n, ch), ch)

Tuning(Kp, Ki, Kd, N, b, c, Kb) ==
    [Kp |-> Kp, Ki |-> Ki, Kd |-> Kd, N |-> N, b |-> b, c |-> c, Kb |-> Kb]

DrvInit ==
    /\ drvPc = "ask"
    /\ tuning = Tuning(D0, D0, D0, D0, D0, D0, D0)
    /\ ask = AskIdle
    /\ coef = [Ti |-> D0, Td |-> D0, a |-> D0, den |-> D0, Ts_over_Ti |-> D0,
               C0 |-> D0, C7A |-> D0, C7B |-> D0,
               a0 |-> F32Zero, c1 |-> F32Zero, c2 |-> F32Zero, c3 |-> F32Zero,
               c4 |-> F32Zero, c5 |-> F32Zero, c6 |-> F32Zero,
               c7a |-> F32Zero, c7b |-> F32Zero]

\* pid_compare.cpp's main before its loop, for the setpoint w; errs is the
\* (abs_err, rel_err) pair of every sample judged, the rows of the table
\* the loop prints
CmpStart(w) ==
    [pc |-> "loop", n |-> 0, w |-> w,
     pid_general |->
        GeneralPidControllerF32(
            DecToF32(11, 100), DecToF32(8, 100),
            F32Mul(DecToF32(11, 100), DecToF32(1, 100)),
            F32Div(DecToF32(1, 1), DecToF32(120, 1)),
            DecToF32(1, 1), F32Zero, DecToF32(12, 1), Ts, F32Neg(YSAT), YSAT),
     pid_delta |-> DeltaPid2TapAw(YSAT),
     enc |-> EncoderFloor(Ts),
     x_true |-> F32Zero,
     y_g |-> F32Zero, y_d |-> F32Zero, y_unsat |-> F32Zero,
     max_abs_err |-> F32Zero, max_rel_err |-> F32Zero, max_err_n |-> -1,
     mismatch_cnt |-> 0, sat_seen |-> FALSE, errs |-> <<>>, exit |-> -1]

\* pid_last_compare.cpp's main before its loop
GoldStart ==
    [pc |-> "sim", n |-> 0, ctrl |-> DeltaPid2TapAw(YSAT),
     enc |-> EncoderFloor(Ts), x_true |-> F32Zero,
     y_sim |-> <<>>, y_ref |-> <<>>, N |-> 0, i |-> 0,
     pass |-> 0, fail |-> 0, max_err |-> F32Zero, max_i |-> -1, exit |-> -1]

HarnessInit ==
    /\ cmp = [CmpStart(W_TGT) EXCEPT !.pc = "start"]
    /\ gold = GoldStart

\* one call of step(w, x) on instance i, r being what step() yields
StepCall(i, w, x, r) ==
    /\ ctrl' = [ctrl EXCEPT ![i] = r.st]
    /\ call' = [call EXCEPT ![i] = [op |-> "step", w |-> w, x |-> x, y |-> r.y,
                                    dy |-> r.dy, y_unsat |-> r.y_unsat,
                                    pre |-> ctrl[i]]]
    /\ log' = [log EXCEPT ![i] = Append(@, <<w, x>>)]
    /\ outs' = [outs EXCEPT ![i] = Append(@, r.y)]
    /\ UNCHANGED dirty

DoStep(i, w, x) == StepCall(i, w, x, step(ctrl[i], w, x))

\* one call of reset() on instance i
DoReset(i) ==
    /\ ctrl' = [ctrl EXCEPT ![i] = reset(ctrl[i])]
    /\ call' = [call EXCEPT ![i] = [NoCall EXCEPT !.op = "reset"]]
    /\ log' = [log EXCEPT ![i] = <<>>]
    /\ outs' = [outs EXCEPT ![i] = <<>>]
    /\ dirty' = [dirty EXCEPT ![i] = HasHistory(ctrl[i])]

(***************************************************************************)
(* Spec: one control loop stepping its controller with arbitrary inputs    *)
(***************************************************************************)
Init == PidInit /\ EncInit /\ DrvInit /\ HarnessInit

Step == \E w \in InputW, x \in InputX :
            /\ Len(log[1]) < MaxSteps
            /\ DoStep(1, w, x)
            /\ UNCHANGED <<encVars, drvVars, harnessVars>>

Reset == DoReset(1) /\ UNCHANGED <<encVars, drvVars, harnessVars>>

Next == Step \/ Reset

Spec == Init /\ [][Next]_vars

(***************************************************************************)
(* SpecDet: two instances, each reset and stepped on its own               *)
(***************************************************************************)
DetStep == \E i \in Inst, p \in DetInputs :
               /\ Len(log[i]) < MaxDetSteps
               /\ DoStep(i, p[1], p[2])
               /\ UNCHANGED <<encVars, drvVars, harnessVars>>

DetReset == (\E i \in Inst : DoReset(i)) /\ UNCHANGED <<encVars, drvVars, harnessVars>>

NextDet == DetStep \/ DetReset

SpecDet == Init /\ [][NextDet]_vars

(***************************************************************************)
(* SpecEnc: the encoder sampled with arbitrary true velocities, and the    *)
(* driver reading the hardware's speed count register                      *)
(***************************************************************************)
\* true velocities [rad/s], among them one beyond 32767 counts per period
\* and one whose angle after a period is just below a whole count
XTrueIn == {F32Zero, DecToF32(1, 1), F32Neg(DecToF32(3, 1)),
            DecToF32(3626, 1),
            DecToF32(40000, 1), F32Neg(DecToF32(40000, 1))}
\* register values the hardware may hold
RawIn == {0, 32767, 32768, 65536 + 42526}

EncSampleDone(r) ==
    /\ enc' = r.enc
    /\ spdcnt' = r.spdcnt
    /\ x_meas' = r.x_meas
    /\ thetaHist' = Append(thetaHist, r.enc.theta_rad)
    /\ spdHist' = Append(spdHist, r.spdcnt)

EncSample == \E x_true \in XTrueIn :
                 /\ Len(spdHist) < MaxSamples
                 /\ EncSampleDone(sample(enc, x_true))
                 /\ UNCHANGED <<pidVars, sp, drvVars, harnessVars>>

\* one pass of the driver's monitoring loop
Monitor == \E raw \in RawIn :
               /\ sp' = status_spdcnt(raw)
               /\ UNCHANGED <<pidVars, enc, spdcnt, x_meas, thetaHist, spdHist, drvVars, harnessVars>>

NextEnc == EncSample \/ Monitor

SpecEnc == Init /\ [][NextEnc]_vars

(***************************************************************************)
(* SpecCoef: the driver asks for a tuning and derives the coefficients     *)
(***************************************************************************)
\* the tunings typed in: every combination of a few gains, among them zero
\* and negative ones, and two tunings with decimal fractions
KpIn == {DFromInt(0), DFromInt(1), DFromInt(2)}
KiIn == {DFromInt(0), DFromInt(1)}
KdIn == {DFromInt(-1), DFromInt(0), DFromInt(1)}
NIn == {DFromInt(0), DFromInt(1), DFromInt(200)}
cIn == {DFromInt(0), DFromInt(1)}
Tunings ==
    {Tuning(Kp, Ki, Kd, N, D1, c, DFromInt(12)) :
        Kp \in KpIn, Ki \in KiIn, Kd \in KdIn, N \in NIn, c \in cIn}
    \cup {Tuning(DFromDec(11, 100), DFromDec(8, 100), DFromDec(11, 10000),
                 DFromInt(120), D1, D0, DFromInt(12)),
          Tuning(DFromDec(5, 10), DFromDec(3, 10), DFromDec(2, 100),
                 DFromInt(10), D1, D0, DFromInt(5))}

\* the seven ask_double() calls of main
AskTuning == \E t \in Tunings :
                 /\ drvPc = "ask"
                 /\ tuning' = t
                 /\ drvPc' = "asked"
                 /\ UNCHANGED <<pidVars, encVars, coef, ask, harnessVars>>

ComputeCoeffsDone(r) ==
    /\ coef' = r
    /\ drvPc' = "computed"
    /\ UNCHANGED <<pidVars, encVars, tuning, ask, harnessVars>>

ComputeCoeffs ==
    /\ drvPc = "asked"
    /\ ComputeCoeffsDone(compute_coeffs(tuning.Kp, tuning.Ki, tuning.Kd,
                                        tuning.N, tuning.b, tuning.c, tuning.Kb))

NextCoef == AskTuning \/ ComputeCoeffs

SpecCoef == Init /\ [][NextCoef]_vars

(***************************************************************************)
(* SpecCmp: pid_compare.cpp's main, the two controllers in closed loop     *)
(* with the plant, for the setpoint of the source and for setpoints that   *)
(* drive the output into saturation                                        *)
(***************************************************************************)
SAMPLES == 100
ABS_TOL == DecToF32(1, 1000)
REL_TOL == DecToF32(1, 1000)
CmpSetpoints == {W_TGT, DecToF32(110, 1), DecToF32(150, 1),
                 F32Neg(DecToF32(120, 1))}

CmpBegin == \E w \in CmpSetpoints :
                /\ cmp.pc = "start"
                /\ cmp' = CmpStart(w)
                /\ UNCHANGED <<pidVars, encVars, drvVars, gold>>

\* the end of the loop body: the worst error, the verdict on the sample and
\* the plant update
CmpJudge(e, g, d, abs_err, rel_err) ==
    cmp' = [cmp EXCEPT
              !.n = cmp.n + 1,
              !.enc = e.enc, !.pid_general = g.st, !.pid_delta = d.st,
              !.y_g = g.y, !.y_d = d.y, !.y_unsat = d.y_unsat,
              !.max_abs_err = IF F32Lt(cmp.max_abs_err, abs_err)
                              THEN abs_err ELSE cmp.max_abs_err,
              !.max_rel_err = IF F32Lt(cmp.max_abs_err, abs_err)
                              THEN rel_err ELSE cmp.max_rel_err,
              !.max_err_n = IF F32Lt(cmp.max_abs_err, abs_err)
                            THEN cmp.n ELSE cmp.max_err_n,
              !.mismatch_cnt = IF F32Le(abs_err, ABS_TOL) \/ F32Le(rel_err, REL_TOL)
                               THEN cmp.mismatch_cnt ELSE cmp.mismatch_cnt + 1,
              !.sat_seen = cmp.sat_seen \/ d.y # d.y_unsat,
              !.errs = Append(cmp.errs, <<abs_err, rel_err>>),
              !.x_true = plant(cmp.x_true, d.y)]

CmpErr(e, g, d, abs_err) ==
    CmpJudge(e, g, d, abs_err,
             F32Div(abs_err, std_max(f32_from_hex(\h2B8C, \hBCCC), F32Fabs(d.y))))

CmpControl(e, g, d) == CmpErr(e, g, d, F32Fabs(F32Sub(g.y, d.y)))

CmpMeasured(e) ==
    CmpControl(e, calculate(cmp.pid_general, cmp.w, e.x_meas),
               step(cmp.pid_delta, cmp.w, e.x_meas))

\* one pass of the loop
CmpSample ==
    /\ cmp.pc = "loop"
    /\ cmp.n < SAMPLES
    /\ CmpMeasured(sample_unfused(cmp.enc, cmp.x_true))
    /\ UNCHANGED <<pidVars, encVars, drvVars, gold>>

\* return (mismatch_cnt == 0) ? 0 : 1
CmpExit ==
    /\ cmp.pc = "loop"
    /\ cmp.n >= SAMPLES
    /\ cmp' = [cmp EXCEPT !.pc = "done",
                          !.exit = IF cmp.mismatch_cnt = 0 THEN 0 ELSE 1]
    /\ UNCHANGED <<pidVars, encVars, drvVars, gold>>

NextCmp == CmpBegin \/ CmpSample \/ CmpExit

SpecCmp == Init /\ [][NextCmp]_vars

(***************************************************************************)
(* SpecGold: pid_last_compare.cpp's main, the simulation and then the      *)
(* comparison with the reference trace read from the file                  *)
(***************************************************************************)
STEPS == 100
tol == DecToF32(1, 1000)
MaxRef == 3
\* what the file may hold: up to MaxRef values, each a simulated value, or
\* one off it by less than the tolerance or by more
RefDev == {F32Zero, F32(2^23, -34), F32(2^23, -32), F32(-(2^23), -30)}
RECURSIVE RefTraces(_, _)
RefTraces(y_sim, n) ==
    IF n = 0 THEN {<<>>}
    ELSE RefTraces(y_sim, n - 1)
         \cup {Append(r, F32Add(y_sim[n], d)) :
                  r \in {q \in RefTraces(y_sim, n - 1) : Len(q) = n - 1},
                  d \in RefDev}

GoldSimDone(e, c) ==
    gold' = [gold EXCEPT !.n = gold.n + 1, !.enc = e.enc, !.ctrl = c.st,
                         !.y_sim = Append(gold.y_sim, c.y),
                         !.x_true = plant(gold.x_true, c.y)]

GoldSimStep(e) == GoldSimDone(e, step(gold.ctrl, W_TGT, e.x_meas))

\* one pass of the simulation loop, n = 0 .. STEPS
GoldSim ==
    /\ gold.pc = "sim"
    /\ gold.n <= STEPS
    /\ GoldSimStep(sample(gold.enc, gold.x_true))
    /\ UNCHANGED <<pidVars, encVars, drvVars, cmp>>

\* read_y_txt and the checks before the comparison loop
GoldRead ==
    /\ gold.pc = "sim"
    /\ gold.n > STEPS
    /\ \E ref \in RefTraces(gold.y_sim, MaxRef) :
          gold' = IF ref = <<>>
                  THEN [gold EXCEPT !.pc = "done", !.exit = 1]
                  ELSE [gold EXCEPT !.pc = "compare", !.y_ref = ref,
                                    !.N = Min(Len(ref), Len(gold.y_sim))]
    /\ UNCHANGED <<pidVars, encVars, drvVars, cmp>>

GoldCompared(err) ==
    gold' = IF F32Le(err, tol)
            THEN [gold EXCEPT !.i = gold.i + 1, !.pass = gold.pass + 1]
            ELSE [gold EXCEPT !.i = gold.i + 1, !.fail = gold.fail + 1,
                     !.max_err = IF F32Lt(gold.max_err, err)
                                 THEN err ELSE gold.max_err,
                     !.max_i = IF F32Lt(gold.max_err, err)
                               THEN gold.i ELSE gold.max_i]

\* one pass of the comparison loop
GoldCompare ==
    /\ gold.pc = "compare"
    /\ gold.i < gold.N
    /\ GoldCompared(F32Fabs(F32Sub(gold.y_sim[gold.i + 1], gold.y_ref[gold.i + 1])))
    /\ UNCHANGED <<pidVars, encVars, drvVars, cmp>>

\* the summary and return 0
GoldExit ==
    /\ gold.pc = "compare"
    /\ gold.i >= gold.N
    /\ gold' = [gold EXCEPT !.pc = "done", !.exit = 0]
    /\ UNCHANGED <<pidVars, encVars, drvVars, cmp>>

NextGold == GoldSim \/ GoldRead \/ GoldCompare \/ GoldExit

SpecGold == Init /\ [][NextGold]_vars

(***************************************************************************)
(* SpecEq: the controller stepped with setpoint equal to measurement after *)
(* a disturbed first sample, and the driver deriving coefficients.  The    *)
(* driver and the controller model are separate programs: the runs of each *)
(* are explored with the other at rest.                                    *)
(***************************************************************************)
MaxEqSteps == 4
\* (w, x) pairs: rest, setpoint equal to measurement, and a first sample
\* whose measurement is off the setpoint
EqInputs == {<<F32Zero, F32Zero>>,
             <<DecToF32(50, 1), DecToF32(50, 1)>>,
             <<DecToF32(50, 1), f32_from_hex(\h424B, \h5558)>>}

EqStep == \E p \in EqInputs :
              /\ drvPc = "ask"
              /\ Len(log[1]) < MaxEqSteps
              /\ DoStep(1, p[1], p[2])
              /\ UNCHANGED <<encVars, drvVars, harnessVars>>

EqAsk == Len(log[1]) = 0 /\ AskTuning

NextEq == EqStep \/ EqAsk \/ ComputeCoeffs

SpecEq == Init /\ [][NextEq]_vars

(***************************************************************************)
(* SpecLine: main calls ask_double again and again, and any character      *)
(* arrives                                                                 *)
(***************************************************************************)
\* the size of the line buffer: 128 in ask_double, small here so that the
\* typed lines fill it; a buffer of one cell holds the empty line only
LineSize == 3
LineSizes == {1, LineSize}

\* what getchar() returns: EOF, BEL, BS, LF, CR, '-', '1', DEL
Keys == {-1, 7, 8, 10, 13, 45, 49, 127}

\* both controllers with the limit of the source, nothing typed yet
LineInit == Init /\ ctrl = [i \in Inst |-> DeltaPid2TapAw(YSAT)]

AskDoubleCall == \E maxlen \in LineSizes :
                     /\ ask.pc \in {"idle", "returned"}
                     /\ ask' = ask_double_call(maxlen)
                     /\ UNCHANGED <<pidVars, encVars, drvPc, tuning, coef, harnessVars>>

AskDoubleKey == \E ch \in Keys :
                    /\ ask.pc = "getchar"
                    /\ ask' = ask_double(ask, ch)
                    /\ UNCHANGED <<pidVars, encVars, drvPc, tuning, coef, harnessVars>>

NextLine == AskDoubleCall \/ AskDoubleKey

SpecLine == LineInit /\ [][NextLine]_vars

(***************************************************************************)
(* Claims                                                                  *)
(***************************************************************************)

\* C1 (Saturation boundary): every value step() returns lies in
\* [-YSAT_, +YSAT_]; it is exactly +YSAT_ when the step's y_unsat is above
\* YSAT_, exactly -YSAT_ when y_unsat is below -YSAT_, and y_unsat otherwise.
C1_SaturationBoundary ==
    \A i \in Inst :
        call[i].op = "step" =>
            /\ F32Le(F32Neg(ctrl[i].YSAT_), call[i].y)
            /\ F32Le(call[i].y, ctrl[i].YSAT_)
            /\ F32Lt(ctrl[i].YSAT_, call[i].y_unsat) => call[i].y = ctrl[i].YSAT_
            /\ F32Lt(call[i].y_unsat, F32Neg(ctrl[i].YSAT_))
                   => call[i].y = F32Neg(ctrl[i].YSAT_)
            /\ (/\ F32Le(call[i].y_unsat, ctrl[i].YSAT_)
                /\ F32Le(F32Neg(ctrl[i].YSAT_), call[i].y_unsat))
                   => call[i].y = call[i].y_unsat

\* C1 witness: a step whose accumulator is above a non-zero limit returns
\* the limit, after an earlier step of the same run was clipped at the
\* negative limit
C1_Witness ==
    /\ call[1].op = "step"
    /\ ctrl[1].YSAT_ = YSAT
    /\ F32Lt(YSAT, call[1].y_unsat)
    /\ call[1].y = YSAT
    /\ \E k \in 1..Len(outs[1]) : outs[1][k] = F32Neg(YSAT)

\* C3 (Reset idempotence): reset() zeroes the nine history values and keeps
\* YSAT_; a reset() of a reset instance changes nothing; a step(0, 0) right
\* after a reset returns exactly 0 and leaves every history value at 0.
C3_ResetIdempotence ==
    [][\A i \in Inst :
        /\ call'[i].op = "reset"
              => ~HasHistory(ctrl'[i]) /\ ctrl'[i].YSAT_ = ctrl[i].YSAT_
        /\ call[i].op = "reset" /\ call'[i].op = "reset" => ctrl'[i] = ctrl[i]
        /\ (/\ call[i].op \in {"ctor", "reset"}
            /\ call'[i].op = "step"
            /\ call'[i].w = F32Zero /\ call'[i].x = F32Zero)
              => call'[i].y = F32Zero /\ ~HasHistory(ctrl'[i])]_vars

\* C3 witness: an instance with a non-zero history was reset and then
\* stepped with w = 0, x = 0
C3_Witness ==
    /\ dirty[1]
    /\ call[1].op = "step"
    /\ log[1] = << <<F32Zero, F32Zero>> >>
    /\ call[1].y = F32Zero

\* C4 (Determinism): two instances with the same YSAT_ that were fed the same
\* (w, x) sequence since their last reset returned the same outputs and are
\* in the same state, whatever either did before its reset.
C4_Determinism ==
    \A i \in Inst, j \in Inst :
        (ctrl[i].YSAT_ = ctrl[j].YSAT_ /\ log[i] = log[j])
            => outs[i] = outs[j] /\ ctrl[i] = ctrl[j]

\* C4 witness: instance 1 was reset out of a non-zero history, instance 2 is
\* fresh, and both then took the same two steps with a non-zero result
C4_Witness ==
    /\ ctrl[1].YSAT_ = ctrl[2].YSAT_
    /\ dirty[1] /\ ~dirty[2]
    /\ Len(log[1]) >= 2
    /\ log[1] = log[2]
    /\ outs[1][2] # F32Zero

RECURSIVE SumFrom(_, _, _)
SumFrom(seq, i, j) == IF i > j THEN 0 ELSE seq[i] + SumFrom(seq, i + 1, j)

\* floor(theta / rad_per_cnt), toward minus infinity, from the quotient's
\* sign, exponent and mantissa
FloorCount(theta) ==
    LET q == F32Div(theta, enc.rad_per_cnt)
        n == IF q.e >= 0 THEN Abs(q.m) * 2^q.e
             ELSE IF q.e < -30 THEN 0 ELSE Abs(q.m) \div (2^(-q.e))
        exact == q.e >= 0 \/ (q.e >= -30 /\ (Abs(q.m) % (2^(-q.e))) = 0)
    IN IF q.m >= 0 THEN n ELSE IF exact THEN -n ELSE -n - 1

C10_CountRange ==
    /\ spdcnt \in -32768..32767
    /\ \A k \in 1..Len(spdHist) : spdHist[k] \in -32768..32767

Coeffs == <<coef.a0, coef.c1, coef.c2, coef.c3, coef.c4, coef.c5, coef.c6,
            coef.c7a, coef.c7b>>
AllFinite == \A i \in 1..Len(Coeffs) : IsFinite(Coeffs[i])

C6_DivisionByZeroGuard ==
    drvPc = "computed" /\ ~DGt(coef.den, D0) =>
        /\ coef.a0 = F32Zero
        /\ AllFinite
        /\ coef.c2 = F32Zero /\ coef.c3 = F32Zero
        /\ coef.c5 = F32Zero /\ coef.c6 = F32Zero
        /\ coef.c1 = DToF32(DMul(tuning.Kp, DAdd(tuning.b, coef.Ts_over_Ti)))
        /\ coef.c4 = DToF32(DMul(DNeg(tuning.Kp), DAdd(D1, coef.Ts_over_Ti)))

\* C7 (Degenerate coefficient safety): Ki = 0 makes Ts/Ti exactly 0 and
\* c7a = c7b = 0; Kp = 0 makes Td = 0, a0 = 0 and c1..c6 = 0; N <= 0 makes
\* a = 0 and a0 = 0; and in each of these cases den = Ts > 0 and no
\* coefficient is infinite or NaN.
C7_DegenerateSafety ==
    drvPc = "computed" =>
        /\ DIsZero(tuning.Ki) =>
              /\ DIsZero(coef.Ts_over_Ti)
              /\ coef.c7a = F32Zero /\ coef.c7b = F32Zero
        /\ DIsZero(tuning.Kp) =>
              /\ DIsZero(coef.Td)
              /\ \A i \in 1..7 : Coeffs[i] = F32Zero
        /\ ~DGt(tuning.N, D0) => DIsZero(coef.a) /\ coef.a0 = F32Zero
        /\ (DIsZero(tuning.Ki) \/ DIsZero(tuning.Kp) \/ ~DGt(tuning.N, D0)) =>
              /\ coef.den = Ts_sec
              /\ DGt(coef.den, D0)
              /\ AllFinite

\* C8 (Cross-controller agreement): reset and fed the same setpoint and
\* measurements, the outputs of GeneralPidControllerF32 and DeltaPid2TapAw
\* agree within 1e-3 absolute or relative error at every one of the 100
\* samples, saturated ones included.
C8_CrossControllerAgreement ==
    cmp.pc # "start" /\ cmp.n >= 1 =>
        \/ F32Le(F32Fabs(F32Sub(cmp.y_g, cmp.y_d)), ABS_TOL)
        \/ F32Le(F32Fabs(F32Sub(cmp.y_g, cmp.y_d)),
                 F32Mul(REL_TOL, F32Fabs(cmp.y_d)))

\* C8 witness: the hundredth sample of a run that saturated earlier, the
\* output now inside the limits and the two controllers apart
C8_Witness ==
    /\ cmp.n = SAMPLES
    /\ cmp.sat_seen
    /\ cmp.y_d = cmp.y_unsat
    /\ cmp.y_g # cmp.y_d

Within(i) == F32Le(F32Fabs(F32Sub(gold.y_sim[i], gold.y_ref[i])), tol)

\* C9 (Harness exit status): each harness that compared its samples ends
\* with exit status zero if and only if every compared sample was within
\* tolerance.
C9_ExitStatus ==
    /\ cmp.pc = "done" => (cmp.exit = 0 <=> cmp.mismatch_cnt = 0)
    /\ gold.pc = "done" /\ gold.N >= 1 =>
          (gold.exit = 0 <=> \A i \in 1..gold.N : Within(i))

\* the absolute error of compared sample i of pid_last_compare.cpp
GoldErr(i) == F32Fabs(F32Sub(gold.y_sim[i], gold.y_ref[i]))
\* whether sample k of pid_compare.cpp is a mismatch
CmpMismatch(k) ==
    ~(F32Le(cmp.errs[k][1], ABS_TOL) \/ F32Le(cmp.errs[k][2], REL_TOL))

\* C11 (Tolerance-violation aggregation): the comparison loop of each harness
\* visits every compared sample, and on completion the mismatch count is the
\* number of samples over the tolerance and the reported worst case is the
\* largest absolute error over all compared samples, with an index at which
\* it is attained -- whether zero, some or all samples are mismatches.
C11_Aggregation ==
    /\ cmp.pc = "done" =>
          /\ Len(cmp.errs) = SAMPLES
          /\ cmp.mismatch_cnt = Cardinality({k \in 1..SAMPLES : CmpMismatch(k)})
          /\ \A k \in 1..SAMPLES : F32Le(cmp.errs[k][1], cmp.max_abs_err)
          /\ cmp.max_err_n \in 0..(SAMPLES - 1)
          /\ cmp.errs[cmp.max_err_n + 1][1] = cmp.max_abs_err
    /\ gold.pc = "done" /\ gold.N >= 1 =>
          /\ gold.i = gold.N
          /\ gold.pass + gold.fail = gold.N
          /\ gold.fail = Cardinality({i \in 1..gold.N : ~Within(i)})
          /\ \A i \in 1..gold.N : F32Le(GoldErr(i), gold.max_err)
          /\ gold.max_i \in 0..(gold.N - 1)
          /\ GoldErr(gold.max_i + 1) = gold.max_err

\* the reference recurrence: the nine terms summed left to right in single
\* precision, e_sat_k = y_sat_k - y_unsat_k taken from the pre-state c
RefDy(c, w, x) ==
    F32Add(F32Add(F32Add(F32Add(F32Add(F32Add(F32Add(F32Add(
        F32Mul(C0, c.dy1),
        F32Mul(C1, w)),
        F32Mul(C2, c.w1)),
        F32Mul(C3, c.w2)),
        F32Mul(C4, x)),
        F32Mul(C5, c.x1)),
        F32Mul(C6, c.x2)),
        F32Mul(C7A, F32Sub(c.y_sat_1, c.y_unsat_1))),
        F32Mul(C7B, F32Sub(c.y_sat_2, c.y_unsat_2)))

\* whether this transition is a call of step() on instance i
IsStepOf(i) == call'[i].op = "step" /\ Len(log'[i]) = Len(log[i]) + 1

\* C12 (Step transition): for every pre-state and input (w, x), step()
\* computes dy = a0*dy1 + c1*w + c2*w1 + c3*w2 + c4*x + c5*x1 + c6*x2
\* + c7a*e_sat_1 + c7b*e_sat_2 from the pre-state and y_unsat = y_unsat_1 + dy,
\* then shifts the histories: dy1 = dy, w1 = w, w2 = old w1, x1 = x,
\* x2 = old x1, y_unsat_1 = y_unsat, y_unsat_2 = old y_unsat_1, y_sat_1 = the
\* value returned, y_sat_2 = old y_sat_1; YSAT_ is unchanged and nothing
\* older than two samples is kept.
C12_StepRecurrence ==
    [][\A i \in Inst :
        IsStepOf(i) =>
            /\ call'[i].dy = RefDy(ctrl[i], call'[i].w, call'[i].x)
            /\ call'[i].y_unsat = F32Add(ctrl[i].y_unsat_1, call'[i].dy)
            /\ ctrl'[i] =
                  [YSAT_ |-> ctrl[i].YSAT_,
                   dy1 |-> call'[i].dy,
                   w1 |-> call'[i].w, w2 |-> ctrl[i].w1,
                   x1 |-> call'[i].x, x2 |-> ctrl[i].x1,
                   y_unsat_1 |-> call'[i].y_unsat,
                   y_unsat_2 |-> ctrl[i].y_unsat_1,
                   y_sat_1 |-> call'[i].y, y_sat_2 |-> ctrl[i].y_sat_1]]_vars

\* C12 witness: a third step after two clipped ones, so that it started
\* with both saturation errors non-zero, with all three (w, x) inputs
\* different and a non-zero delta
C12_Witness ==
    /\ call[1].op = "step"
    /\ ctrl[1].YSAT_ = YSAT
    /\ Len(log[1]) = 3
    /\ outs[1][1] = YSAT
    /\ ctrl[1].y_sat_2 # ctrl[1].y_unsat_2
    /\ log[1][1][1] # log[1][2][1] /\ log[1][2][1] # log[1][3][1]
    /\ log[1][1][2] # log[1][2][2] /\ log[1][2][2] # log[1][3][2]
    /\ call[1].dy # F32Zero
    /\ ctrl[1].w2 = log[1][2][1] /\ ctrl[1].x2 = log[1][2][2]

\* (-1)^sa * A * 2^ea compared with (-1)^sb * B * 2^eb, A and B naturals
\* in limbs: -1, 0 or 1
ExCmpMag(A, B) ==
    IF A = <<>> /\ B = <<>> THEN 0
    ELSE IF A = <<>> THEN -1
    ELSE IF B = <<>> THEN 1
    ELSE BCmp(A, B)
ExCmpAligned(sa, A, sb, B) ==
    IF A = <<>> /\ B = <<>> THEN 0
    ELSE IF A = <<>> THEN (IF sb THEN 1 ELSE -1)
    ELSE IF B = <<>> THEN (IF sa THEN -1 ELSE 1)
    ELSE IF sa /\ ~sb THEN -1
    ELSE IF ~sa /\ sb THEN 1
    ELSE IF sa THEN ExCmpMag(B, A) ELSE ExCmpMag(A, B)
ExCmp(sa, A, ea, sb, B, eb) ==
    ExCmpAligned(sa, BShl(A, ea - Min(ea, eb)), sb, BShl(B, eb - Min(ea, eb)))

\* theta compared with k * rad_per_cnt in exact arithmetic, that is
\* theta / rad_per_cnt compared with the integer k
ThetaVsCount(theta, k) ==
    ExCmp(theta.m < 0, BNat(Abs(theta.m)), theta.e,
          k < 0, BMul(BNat(Abs(k)), BNat(enc.rad_per_cnt.m)), enc.rad_per_cnt.e)

\* theta + 2^-24 * |theta| compared with k * rad_per_cnt in exact arithmetic
ThetaSlackVsCount(theta, k) ==
    ExCmp(theta.m < 0,
          BMul(BNat(Abs(theta.m)),
               BNat(IF theta.m < 0 THEN 2^MantBits - 1 ELSE 2^MantBits + 1)),
          theta.e,
          k < 0, BMul(BNat(Abs(k)), BNat(enc.rad_per_cnt.m)),
          enc.rad_per_cnt.e + MantBits)

\* the count held after k samples, from the counts emitted
CountAfter(k) == SumFrom(spdHist, 1, k)

e_sat_1(c) == add_rn(c.y_sat_1, F32Neg(c.y_unsat_1))
e_sat_2(c) == add_rn(c.y_sat_2, F32Neg(c.y_unsat_2))
AwContribution(c) ==
    F32Add(mul_rn(C7A, e_sat_1(c)), mul_rn(C7B, e_sat_2(c)))
ClippedHigh(c) == F32Lt(c.YSAT_, c.y_unsat_1)
ClippedLow(c) == F32Lt(c.y_unsat_1, F32Neg(c.YSAT_))

\* C14 as stated (Anti-windup pull-back): in every reachable state whose
\* previous output was clipped high the contribution c7a*e_sat_1 +
\* c7b*e_sat_2 to the next dy is <= 0, and it is >= 0 in every state whose
\* previous output was clipped low.
C14_PullBackAlways ==
    \A i \in Inst :
        /\ ClippedHigh(ctrl[i]) => F32Le(AwContribution(ctrl[i]), F32Zero)
        /\ ClippedLow(ctrl[i]) => F32Le(F32Zero, AwContribution(ctrl[i]))

\* C14 amended (Anti-windup pull-back): when the previous output was clipped
\* high, e_sat_1 < 0 and the term c7a*e_sat_1 is <= 0; the combined
\* contribution is <= 0 if the output before it was not clipped high
\* (e_sat_2 >= 0), and otherwise exactly when |c7b*e_sat_2| <= |c7a*e_sat_1|;
\* symmetrically for an output clipped low.
C14_PullBack ==
    \A i \in Inst :
        /\ ClippedHigh(ctrl[i]) =>
              /\ F32Lt(e_sat_1(ctrl[i]), F32Zero)
              /\ F32Le(mul_rn(C7A, e_sat_1(ctrl[i])), F32Zero)
              /\ F32Le(F32Zero, e_sat_2(ctrl[i]))
                    => F32Le(AwContribution(ctrl[i]), F32Zero)
              /\ F32Lt(e_sat_2(ctrl[i]), F32Zero)
                    => (F32Le(AwContribution(ctrl[i]), F32Zero)
                        <=> F32Le(F32Fabs(mul_rn(C7B, e_sat_2(ctrl[i]))),
                                  F32Fabs(mul_rn(C7A, e_sat_1(ctrl[i])))))
        /\ ClippedLow(ctrl[i]) =>
              /\ F32Lt(F32Zero, e_sat_1(ctrl[i]))
              /\ F32Le(F32Zero, mul_rn(C7A, e_sat_1(ctrl[i])))
              /\ F32Le(e_sat_2(ctrl[i]), F32Zero)
                    => F32Le(F32Zero, AwContribution(ctrl[i]))
              /\ F32Lt(F32Zero, e_sat_2(ctrl[i]))
                    => (F32Le(F32Zero, AwContribution(ctrl[i]))
                        <=> F32Le(F32Fabs(mul_rn(C7B, e_sat_2(ctrl[i]))),
                                  F32Fabs(mul_rn(C7A, e_sat_1(ctrl[i])))))

\* C14 witness: with the limit 12 the last two outputs were both clipped
\* high, the older one much further, and the contribution is positive
C14_Witness ==
    /\ ctrl[1].YSAT_ = YSAT
    /\ call[1].op = "step"
    /\ ClippedHigh(ctrl[1])
    /\ F32Lt(YSAT, ctrl[1].y_unsat_2)
    /\ F32Lt(F32Zero, AwContribution(ctrl[1]))

\* the first seven terms of dy, the two anti-windup terms left out
DyNoAw(c, w, x) ==
    F32Add(F32Add(F32Add(F32Add(F32Add(F32Add(
        F32Mul(C0, c.dy1),
        F32Mul(C1, w)),
        F32Mul(C2, c.w1)),
        F32Mul(C3, c.w2)),
        F32Mul(C4, x)),
        F32Mul(C5, c.x1)),
        F32Mul(C6, c.x2))

\* |y_unsat| <= YSAT_ for an accumulator value of the instance c
InRange(c, y_unsat) == F32Le(F32Neg(c.YSAT_), y_unsat) /\ F32Le(y_unsat, c.YSAT_)

\* the parts of C15 about one history slot: the saturated value is the
\* clamp of the unsaturated one, and the saturation error is 0 exactly when
\* the unsaturated value is in range, negative above and positive below
SatConsistent(c, y_sat, y_unsat, e_sat) ==
    /\ y_sat = (IF F32Lt(c.YSAT_, y_unsat) THEN c.YSAT_
                ELSE IF F32Lt(y_unsat, F32Neg(c.YSAT_)) THEN F32Neg(c.YSAT_)
                ELSE y_unsat)
    /\ e_sat = F32Zero <=> InRange(c, y_unsat)
    /\ F32Lt(e_sat, F32Zero) <=> F32Lt(c.YSAT_, y_unsat)
    /\ F32Lt(F32Zero, e_sat) <=> F32Lt(y_unsat, F32Neg(c.YSAT_))

\* C15 (Saturation-history consistency): in every state reached from
\* reset() by step() calls, y_sat_1 = clamp(y_unsat_1, -YSAT, +YSAT) and
\* y_sat_2 = clamp(y_unsat_2, -YSAT, +YSAT); so e_sat_k is 0 exactly when
\* |y_unsat_k| <= YSAT, negative when y_unsat_k > YSAT and positive when
\* y_unsat_k < -YSAT, and the two anti-windup terms add nothing to the next
\* dy unless one of the last two outputs was clipped.
C15_SaturationHistory ==
    \A i \in Inst :
        /\ SatConsistent(ctrl[i], ctrl[i].y_sat_1, ctrl[i].y_unsat_1,
                         e_sat_1(ctrl[i]))
        /\ SatConsistent(ctrl[i], ctrl[i].y_sat_2, ctrl[i].y_unsat_2,
                         e_sat_2(ctrl[i]))
        /\ (/\ InRange(ctrl[i], ctrl[i].y_unsat_1)
            /\ InRange(ctrl[i], ctrl[i].y_unsat_2))
              => \A w \in InputW, x \in InputX :
                    step_dy(ctrl[i], w, x) = DyNoAw(ctrl[i], w, x)

\* C15 witness: after a reset out of a non-zero history the first output
\* was clipped, and the two outputs since are in range and non-zero, so
\* that both saturation errors are 0 again and the anti-windup terms idle
C15_Witness ==
    /\ dirty[1]
    /\ ctrl[1].YSAT_ = YSAT
    /\ Len(log[1]) = 3
    /\ outs[1][1] \in {YSAT, F32Neg(YSAT)}
    /\ outs[1][1] # outs[1][2]
    /\ InRange(ctrl[1], ctrl[1].y_unsat_1) /\ ctrl[1].y_unsat_1 # F32Zero
    /\ InRange(ctrl[1], ctrl[1].y_unsat_2) /\ ctrl[1].y_unsat_2 # F32Zero

\* the sum of the finite floats fs[1..n] in exact arithmetic, as the pair of
\* the sums of its positive and of its negative terms, in units of 2^EMin
RECURSIVE ExactSum(_, _)
ExactSum(fs, n) ==
    IF n = 0 THEN <<BNat(0), BNat(0)>>
    ELSE IF fs[n].m >= 0
    THEN <<BAdd(ExactSum(fs, n - 1)[1], BShl(BNat(fs[n].m), fs[n].e - EMin)),
           ExactSum(fs, n - 1)[2]>>
    ELSE <<ExactSum(fs, n - 1)[1],
           BAdd(ExactSum(fs, n - 1)[2], BShl(BNat(-fs[n].m), fs[n].e - EMin))>>

\* |P - N| for the pair of sums pn
SumMagnitude(pn) ==
    IF ExCmpMag(pn[1], pn[2]) >= 0 THEN BSub(pn[1], pn[2]) ELSE BSub(pn[2], pn[1])

\* the six setpoint and measurement coefficients the driver stored
SixCoeffs == <<coef.c1, coef.c2, coef.c3, coef.c4, coef.c5, coef.c6>>

\* the precondition of C16 on the instance c and the value v
AtEquilibrium(c, v) ==
    /\ c.dy1 = F32Zero
    /\ e_sat_1(c) = F32Zero /\ e_sat_2(c) = F32Zero
    /\ c.w1 = v /\ c.w2 = v /\ c.x1 = v /\ c.x2 = v

\* the last call on instance i was a step(v, v) from such a state
HeldStep(i) ==
    /\ call[i].op = "step"
    /\ call[i].w = call[i].x
    /\ AtEquilibrium(call[i].pre, call[i].w)

\* C16 as stated (Equilibrium hold): for every tuning with den > 0 the
\* coefficients compute_coeffs produces satisfy c1 + c2 + c3 + c4 + c5 + c6
\* = 0 exactly, and a step(v, v) from a state with dy1 = 0, e_sat_1 =
\* e_sat_2 = 0 and w1 = w2 = x1 = x2 = v yields dy = 0, leaves y_unsat
\* unchanged and returns the same output as the previous step.
C16_EquilibriumHoldExact ==
    /\ drvPc = "computed" /\ DGt(coef.den, D0) =>
          /\ AllFinite
          /\ SumMagnitude(ExactSum(SixCoeffs, 6)) = BNat(0)
    /\ \A i \in Inst :
          HeldStep(i) =>
              /\ call[i].dy = F32Zero
              /\ call[i].y_unsat = call[i].pre.y_unsat_1
              /\ call[i].y = call[i].pre.y_sat_1

\* C16 amended (Equilibrium hold): for every tuning with den > 0 the stored
\* coefficients c1..c6 are finite and sum to zero up to rounding (the sum is
\* at most 2^-23 times the sum of their magnitudes), and a step(v, v) from
\* such a state yields a dy that is zero up to rounding, |dy| <= 2^-21 * |v|
\* (exactly zero for v = 0), adds that dy to y_unsat and returns an output
\* within 2 * |dy| of the previous one.
C16_EquilibriumHold ==
    /\ drvPc = "computed" /\ DGt(coef.den, D0) =>
          /\ AllFinite
          /\ ExCmpMag(BShl(SumMagnitude(ExactSum(SixCoeffs, 6)), 23),
                      BAdd(ExactSum(SixCoeffs, 6)[1], ExactSum(SixCoeffs, 6)[2]))
                <= 0
    /\ \A i \in Inst :
          HeldStep(i) =>
              /\ F32Le(F32Fabs(call[i].dy),
                       mul_rn(F32(2^23, -44), F32Fabs(call[i].w)))
              /\ call[i].y_unsat = add_rn(call[i].pre.y_unsat_1, call[i].dy)
              /\ F32Le(F32Fabs(F32Sub(call[i].y, call[i].pre.y_sat_1)),
                       F32Mul(IntToF32(2), F32Fabs(call[i].dy)))

\* C16 witness: after a disturbed first sample and two samples with setpoint
\* equal to measurement the instance is at rest with non-zero histories, and
\* the next such step yields a non-zero dy and moves y_unsat
C16_Witness ==
    /\ HeldStep(1)
    /\ call[1].w # F32Zero
    /\ Len(log[1]) = 4
    /\ call[1].dy # F32Zero
    /\ call[1].y_unsat # call[1].pre.y_unsat_1

\* a line strtod converts a prefix of: white space, an optional sign, then
\* a digit, or a point and a digit
NumberPrefix(s) ==
    \E k \in 1..Len(s) : \E p \in 0..1, g \in 0..1 :
        /\ isdigit(s[k])
        /\ k - p - g >= 1
        /\ p = 1 => s[k - 1] = 46
        /\ g = 1 => s[k - p - 1] \in {43, 45}
        /\ \A m \in 1..(k - p - g - 1) : isspace(s[m])

\* C17 (Line-input buffer safety): while ask_double reads a line into a
\* buffer of maxlen >= 1 cells, whatever characters arrive, the index n of
\* read_line_echo stays within 0..maxlen-1, the cells before n hold the
\* printable characters typed, nothing is written at or behind buf[maxlen],
\* a backspace or delete at n = 0 leaves n at 0, and on CR or LF
\* read_line_echo returns the index n it had, with buf[n] = NUL. ask_double
\* has returned only when the last line was not empty and strtod converted
\* a prefix of it; after an empty line or one strtod converts nothing of, it
\* has printed the prompt again and waits for the next line.
C17_LineInputSafety ==
    ask.pc # "idle" =>
        /\ ask.maxlen >= 1
        /\ 0 <= ask.n /\ ask.n <= ask.maxlen - 1
        /\ \A k \in 0..(ask.n - 1) : isprint(ask.buf[k])
        /\ \A k \in DOMAIN ask.buf : k >= ask.maxlen => ask.buf[k] = -1
        /\ ask.key \in {8, 127} /\ ask.n0 = 0 => ask.n = 0
        /\ ask.key \in {10, 13} =>
               /\ ask.ret = ask.n0
               /\ ask.buf[ask.ret] = 0
               /\ ask.seen = [k \in 1..ask.ret |-> ask.buf[k - 1]]
               /\ ask.echo = <<13, 10>>
        /\ ask.pc = "returned" =>
               /\ ask.key \in {10, 13}
               /\ ask.ret > 0
               /\ NumberPrefix(ask.seen)
        /\ ask.key \in {10, 13} /\ (ask.ret = 0 \/ ~NumberPrefix(ask.seen)) =>
               /\ ask.pc = "getchar"
               /\ ask.n = 0
               /\ ask.out # <<>> /\ ask.out[Len(ask.out)] = "prompt"

\* ask_double returned 1 for the line "1-", which filled the buffer, after
\* an empty line, a line without a number, a character that found the
\* buffer full and a backspace at n = 0
C17_Witness ==
    /\ ask.pc = "returned"
    /\ ask.maxlen = LineSize
    /\ ask.ret = ask.maxlen - 1
    /\ ask.seen[ask.ret] = 45
    /\ ask.v = DFromInt(DigitsVal(ask.seen, 1, ask.ret, 0))
    /\ ask.cases = {"empty", "unparsed", "full", "bs0"}

=============================================================================
